---- MODULE Spec2Model ----
(***************************************************************************)
(* A model of gnikyt/shopifysemaphore: Balance (balance.go) and Semaphore  *)
(* (semaphore.go).  Time is counted in whole seconds.  Every goroutine is  *)
(* a process: the callers of Aquire/Release, the `go sem.PauseFunc(...)`   *)
(* goroutines and the `go func() { time.Sleep(ra); ... }` goroutines.      *)
(***************************************************************************)
EXTENDS Integers, Naturals, Sequences, FiniteSets, TLC

\* ------------------------------------------------------------------ bounds
NWorkers == 2

\* -------------------------------------------------------- program constants
ErrPts == -1
DefaultPauseBuffer == 1

Workers == 1 .. NWorkers

\* NewBalance arguments <<thld, max, rr>> of the repository's test fixtures:
\* newSemaphore in semaphore_test.go and newBalance in balance_test.go.
SemaphoreFixture == <<900, 1000, 100>>
BalanceFixture == <<100, 1000, 100>>

\* The runs explored: the arguments of NewBalance and NewSemaphore (cap and
\* the durations of the WithPauseBuffer options given), the kind of context
\* the callers pass to Aquire, and the values the API reports, which the
\* callers pass to Release: the sentinel, the thresholds of the two
\* fixtures (100 and 900) and a full balance.
Scenarios ==
    { [bal |-> SemaphoreFixture, cap |-> 1, opts |-> <<>>,
       ctx |-> "background", api |-> {100, 900}],
      [bal |-> SemaphoreFixture, cap |-> 1, opts |-> <<1>>,
       ctx |-> "background", api |-> {900}],
      [bal |-> SemaphoreFixture, cap |-> 1, opts |-> <<>>,
       ctx |-> "deadline", api |-> {ErrPts, 900, 1000}],
      [bal |-> BalanceFixture, cap |-> 2, opts |-> <<1>>,
       ctx |-> "deadline", api |-> {100, 1000}] }

VARIABLES
    capacity,     \* cap(sem.sema)
    Threshold,    \* Balance.Threshold
    Limit,        \* Balance.Limit
    RefillRate,   \* Balance.RefillRate
    given,        \* the durations of the WithPauseBuffer options given
    PauseBuffer,  \* Semaphore.PauseBuffer
    Remaining,    \* Balance.Remaining
    paused,       \* Semaphore.paused
    since,        \* time.Now() - Semaphore.pausedAt in seconds, up to Far
    sema,         \* len(sem.sema)
    mu,           \* Semaphore.mu: 0 when unlocked, else the holder
    n,            \* number of goroutines the caller starts
    api,          \* the values the API reports in this run
    ctxKind,      \* "background" or "deadline"
    ctxDone,      \* ctx.Done() is closed
    pc,           \* position of each caller goroutine
    pts,          \* the argument of each caller's Release
    err,          \* the result of each caller's Aquire
    timers,       \* resume goroutines inside time.Sleep(ra), by pause
    resuming,     \* resume goroutines between paused = false and ResumeFunc()
    pauseQ,       \* started PauseFunc goroutines that have not run yet
    pauses,       \* every pause activation: the arguments given to
                  \* PauseFunc and the time its sleeper has left
    panicked      \* the process has panicked

vars == <<capacity, Threshold, Limit, RefillRate, given, PauseBuffer, Remaining,
          paused, since, sema, mu, n, api, ctxKind, ctxDone, pc, pts, err,
          timers, resuming, pauseQ, pauses, panicked>>

\* ----------------------------------------------------------------- helpers
Abs(x) == IF x < 0 THEN -x ELSE x

\* Go's integer division truncates toward zero.
Quo(a, b) ==
    IF (a >= 0) = (b > 0) THEN Abs(a) \div Abs(b) ELSE -(Abs(a) \div Abs(b))

\* ---------------------------------------------------------------- Balance
\* An Update that stores every value, the sentinel too.
UpdateAlways(rem, points) == points

\* Balance.Update: the value of Remaining after Update(points).
Update(rem, points) == IF points > ErrPts THEN points ELSE rem

\* An AtThreshold that is true of every balance.
AtThresholdAlways(rem, thld) == TRUE

\* An AtThreshold that is true only below the threshold.
AtThresholdBelow(rem, thld) == rem < thld

\* Balance.AtThreshold.
AtThreshold(rem, thld) == rem <= thld

\* A refill duration that counts a started second as a whole one: the
\* quotient is rounded away from zero whenever there is a remainder.
RefillDurationRoundedUp(rem, max, rr) ==
    IF (max - rem >= 0) = (rr > 0)
    THEN (Abs(max - rem) + Abs(rr) - 1) \div Abs(rr)
    ELSE -((Abs(max - rem) + Abs(rr) - 1) \div Abs(rr))

\* Balance.RefillDuration in seconds (the int32 operands stay far from the
\* type's range here); rr = 0 panics, which Release handles.
RefillDuration(rem, max, rr) == Quo(max - rem, rr)

\* NewBalance(thld, max, rr): the fields, Remaining set by Update(max).
NewBalance(thld, max, rr) ==
    [Threshold |-> thld, Limit |-> max, RefillRate |-> rr,
     Remaining |-> Update(0, max)]

\* -------------------------------------------------------------- Semaphore
\* NewSemaphore: the options run in order, so PauseBuffer is the last
\* option's value, or the zero value of the field when none is given;
\* make(chan struct{}, cap) panics for cap < 0.
NewSemaphorePauseBuffer(opts) == IF opts = <<>> THEN 0 ELSE opts[Len(opts)]

NewSemaphorePanics(cap) == cap < 0

\* A pause duration without the pause buffer.
PauseDurationNoBuffer(rem) == RefillDuration(rem, Limit, RefillRate)

\* ra := sem.RefillDuration() + sem.PauseBuffer
PauseDuration(rem) == RefillDuration(rem, Limit, RefillRate) + PauseBuffer

\* Time.  The program reads the clock only in
\* sem.pausedAt.Add(ra).Before(time.Now()) and in time.Sleep(ra), so the
\* model keeps the time elapsed since pausedAt and the time each sleeper has
\* left instead of absolute instants.  No pause is longer than LongestPause
\* (a balance is a value the API reports or the initial one), so an elapsed
\* time of Far or more decides every comparison like Far does and is stored
\* as Far;
\* the zero time.Time of a new Semaphore lies that far back.
Max(a, b) == IF a >= b THEN a ELSE b

Min(a, b) == IF a <= b THEN a ELSE b

Balances == (api \ {ErrPts}) \cup {Limit}

LongestPause ==
    IF RefillRate = 0 THEN Max(0, PauseBuffer)
    ELSE CHOOSE d \in {Max(0, PauseDuration(r)) : r \in Balances} :
             \A r \in Balances : PauseDuration(r) <= d

Far == LongestPause + 1

InitWith(scenarios) ==
    \E sc \in scenarios, k \in 1 .. NWorkers :
        LET b == NewBalance(sc.bal[1], sc.bal[2], sc.bal[3]) IN
        /\ capacity = sc.cap
        /\ Threshold = b.Threshold
        /\ Limit = b.Limit
        /\ RefillRate = b.RefillRate
        /\ Remaining = b.Remaining
        /\ given = sc.opts
        /\ PauseBuffer = NewSemaphorePauseBuffer(sc.opts)
        /\ api = sc.api
        /\ paused = FALSE
        /\ since = Far
        /\ sema = 0
        /\ mu = 0
        /\ n = k
        /\ ctxKind = sc.ctx
        /\ ctxDone = FALSE
        /\ pc = [w \in Workers |-> "idle"]
        /\ pts = [w \in Workers |-> 0]
        /\ err = [w \in Workers |-> "none"]
        /\ timers = {}
        /\ resuming = {}
        /\ pauseQ = {}
        /\ pauses = <<>>
        /\ panicked = NewSemaphorePanics(sc.cap)

Init == InitWith(Scenarios)

\* ------------------------------------------------------------------ Aquire
\* The caller enters Aquire.
AquireCall(w) ==
    /\ ~panicked
    /\ w <= n
    /\ pc[w] = "idle"
    /\ pc' = [pc EXCEPT ![w] = "spin"]
    /\ UNCHANGED <<capacity, Threshold, Limit, RefillRate, given, PauseBuffer,
                   Remaining, paused, since, sema, mu, n, api, ctxKind,
                   ctxDone, pts, err, timers, resuming, pauseQ, pauses,
                   panicked>>

\* for { if !sem.paused { break } }: an unsynchronised read of paused; the
\* loop is left by an iteration that reads false.
AquireSpin(w) ==
    /\ ~panicked
    /\ pc[w] = "spin"
    /\ ~paused
    /\ pc' = [pc EXCEPT ![w] = "select"]
    /\ UNCHANGED <<capacity, Threshold, Limit, RefillRate, given, PauseBuffer,
                   Remaining, paused, since, sema, mu, n, api, ctxKind,
                   ctxDone, pts, err, timers, resuming, pauseQ, pauses,
                   panicked>>

\* A send that is always ready, as on a channel without a capacity.
SendReadyUnbounded == TRUE

\* A send on the buffered channel is ready while a buffer cell is free.
SendReady == sema < capacity

\* A cancellation case that puts an element into the channel all the same.
SelectCtxTakesSlot(w) ==
    /\ ctxDone
    /\ pc' = [pc EXCEPT ![w] = "failed"]
    /\ err' = [err EXCEPT ![w] = "ctx"]
    /\ sema' = sema + 1

\* case <-ctx.Done(): aquired = true; err = ctx.Err()
SelectCtx(w) ==
    /\ ctxDone
    /\ pc' = [pc EXCEPT ![w] = "failed"]
    /\ err' = [err EXCEPT ![w] = "ctx"]
    /\ sema' = sema

\* case sem.sema <- struct{}{}: aquired = true
SelectSend(w) ==
    /\ SendReady
    /\ pc' = [pc EXCEPT ![w] = "held"]
    /\ err' = [err EXCEPT ![w] = "nil"]
    /\ sema' = sema + 1

\* default: time.Sleep(sem.AquireBuffer), and the outer loop starts over.
SelectDefault(w) ==
    /\ ~ctxDone
    /\ ~SendReady
    /\ pc' = [pc EXCEPT ![w] = "spin"]
    /\ err' = err
    /\ sema' = sema

\* The select statement: when several cases are ready Go picks one of them
\* at random; default runs only when none is ready.
AquireSelect(w) ==
    /\ ~panicked
    /\ pc[w] = "select"
    /\ \/ SelectCtx(w)
       \/ SelectSend(w)
       \/ SelectDefault(w)
    /\ UNCHANGED <<capacity, Threshold, Limit, RefillRate, given, PauseBuffer,
                   Remaining, paused, since, mu, n, api, ctxKind, ctxDone,
                   pts, timers, resuming, pauseQ, pauses, panicked>>

\* ----------------------------------------------------------------- Release
\* The caller, holding a spot, calls Release(p).
ReleaseCall(w, p) ==
    /\ ~panicked
    /\ pc[w] = "held"
    /\ pc' = [pc EXCEPT ![w] = "lock"]
    /\ pts' = [pts EXCEPT ![w] = p]
    /\ UNCHANGED <<capacity, Threshold, Limit, RefillRate, given, PauseBuffer,
                   Remaining, paused, since, sema, mu, n, api, ctxKind,
                   ctxDone, err, timers, resuming, pauseQ, pauses,
                   panicked>>

\* sem.mu.Lock()
ReleaseLock(w) ==
    /\ ~panicked
    /\ pc[w] = "lock"
    /\ mu = 0
    /\ mu' = w
    /\ pc' = [pc EXCEPT ![w] = "body"]
    /\ UNCHANGED <<capacity, Threshold, Limit, RefillRate, given, PauseBuffer,
                   Remaining, paused, since, sema, n, api, ctxKind,
                   ctxDone, pts, err, timers, resuming, pauseQ, pauses,
                   panicked>>

\* A guard that also passes at the instant pausedAt + ra itself.
CooldownOverOrAt(ra) == ra <= since

\* sem.pausedAt.Add(ra).Before(time.Now())
CooldownOver(ra) == ra < since

\* The pause branch of Release: the flag, the timestamp and the two
\* goroutines it starts.
ActivatePause(w, ra) ==
    LET id == Len(pauses) + 1 IN
    /\ paused' = TRUE
    /\ since' = 0
    /\ pauseQ' = pauseQ \cup {id}
    /\ timers' = timers \cup {id}
    /\ pauses' = Append(pauses, [pts |-> pts[w], dur |-> ra,
                                 left |-> Max(0, ra)])

\* sem.Update(pts); if sem.AtThreshold() { ... }, under the mutex.  A zero
\* RefillRate makes RefillDuration panic with a division by zero.
ReleaseBody(w) ==
    /\ ~panicked
    /\ pc[w] = "body"
    /\ LET rem == Update(Remaining, pts[w]) IN
       /\ Remaining' = rem
       /\ IF AtThreshold(rem, Threshold) /\ RefillRate = 0
          THEN /\ panicked' = TRUE
               /\ pc' = pc
               /\ UNCHANGED <<paused, since, pauseQ, timers, pauses>>
          ELSE /\ panicked' = panicked
               /\ pc' = [pc EXCEPT ![w] = "free"]
               /\ IF AtThreshold(rem, Threshold)
                     /\ CooldownOver(PauseDuration(rem))
                  THEN ActivatePause(w, PauseDuration(rem))
                  ELSE UNCHANGED <<paused, since, pauseQ, timers, pauses>>
    /\ UNCHANGED <<capacity, Threshold, Limit, RefillRate, given, PauseBuffer,
                   sema, mu, n, api, ctxKind, ctxDone, pts, err, resuming>>

\* A receive from the channel is ready while the buffer holds an element.
RecvReady == sema > 0

\* A Release that gives the spot back only when the gate is not paused.
ReleaseFreeUnlessPaused(w) ==
    /\ ~panicked
    /\ pc[w] = "free"
    /\ RecvReady
    /\ sema' = IF paused THEN sema ELSE sema - 1
    /\ mu' = 0
    /\ pc' = [pc EXCEPT ![w] = "done"]
    /\ pts' = [pts EXCEPT ![w] = 0]
    /\ UNCHANGED <<capacity, Threshold, Limit, RefillRate, given, PauseBuffer,
                   Remaining, paused, since, n, api, ctxKind, ctxDone,
                   err, timers, resuming, pauseQ, pauses,
                   panicked>>

\* A Release that returns only once the gate is running again.
ReleaseFreeAfterPause(w) ==
    /\ ~panicked
    /\ pc[w] = "free"
    /\ RecvReady
    /\ ~paused
    /\ sema' = sema - 1
    /\ mu' = 0
    /\ pc' = [pc EXCEPT ![w] = "done"]
    /\ pts' = [pts EXCEPT ![w] = 0]
    /\ UNCHANGED <<capacity, Threshold, Limit, RefillRate, given, PauseBuffer,
                   Remaining, paused, since, n, api, ctxKind, ctxDone,
                   err, timers, resuming, pauseQ, pauses,
                   panicked>>

\* <-sem.sema, then the deferred sem.mu.Unlock(); the call returns and its
\* argument is gone.
ReleaseFree(w) ==
    /\ ~panicked
    /\ pc[w] = "free"
    /\ RecvReady
    /\ sema' = sema - 1
    /\ mu' = 0
    /\ pc' = [pc EXCEPT ![w] = "done"]
    /\ pts' = [pts EXCEPT ![w] = 0]
    /\ UNCHANGED <<capacity, Threshold, Limit, RefillRate, given, PauseBuffer,
                   Remaining, paused, since, n, api, ctxKind, ctxDone,
                   err, timers, resuming, pauseQ, pauses,
                   panicked>>

\* ------------------------------------------------------ spawned goroutines
\* go sem.PauseFunc(pts, ra): the goroutine runs the callback.
PauseCall(id) ==
    /\ ~panicked
    /\ id \in pauseQ
    /\ pauseQ' = pauseQ \ {id}
    /\ UNCHANGED <<capacity, Threshold, Limit, RefillRate, given, PauseBuffer,
                   Remaining, paused, since, sema, mu, n, api, ctxKind,
                   ctxDone, pc, pts, err, timers, resuming, pauses, panicked>>

\* A resume goroutine that wakes up and leaves the flag as it is.
ResumeWakeKeepsFlag(id) ==
    /\ ~panicked
    /\ id \in timers
    /\ pauses[id].left = 0
    /\ timers' = timers \ {id}
    /\ resuming' = resuming \cup {id}
    /\ UNCHANGED <<capacity, Threshold, Limit, RefillRate, given, PauseBuffer,
                   Remaining, paused, since, sema, mu, n, api, ctxKind,
                   ctxDone, pc, pts, err, pauseQ, pauses, panicked>>

\* time.Sleep(ra) has returned: sem.paused = false (without the mutex).
ResumeWake(id) ==
    /\ ~panicked
    /\ id \in timers
    /\ pauses[id].left = 0
    /\ timers' = timers \ {id}
    /\ resuming' = resuming \cup {id}
    /\ paused' = FALSE
    /\ UNCHANGED <<capacity, Threshold, Limit, RefillRate, given, PauseBuffer,
                   Remaining, since, sema, mu, n, api, ctxKind, ctxDone,
                   pc, pts, err, pauseQ, pauses, panicked>>

\* A resume goroutine that calls ResumeFunc only while the flag is set.
ResumeCallIfPaused(id) ==
    /\ ~panicked
    /\ id \in resuming
    /\ paused
    /\ resuming' = resuming \ {id}
    /\ UNCHANGED <<capacity, Threshold, Limit, RefillRate, given, PauseBuffer,
                   Remaining, paused, since, sema, mu, n, api, ctxKind,
                   ctxDone, pc, pts, err, timers, pauseQ, pauses, panicked>>

\* sem.ResumeFunc()
ResumeCall(id) ==
    /\ ~panicked
    /\ id \in resuming
    /\ resuming' = resuming \ {id}
    /\ UNCHANGED <<capacity, Threshold, Limit, RefillRate, given, PauseBuffer,
                   Remaining, paused, since, sema, mu, n, api, ctxKind,
                   ctxDone, pc, pts, err, timers, pauseQ, pauses, panicked>>

\* ------------------------------------------------------------- environment
\* The context's deadline passes (or cancel is called).
CtxCancel ==
    /\ ~panicked
    /\ ctxKind = "deadline"
    /\ ~ctxDone
    /\ ctxDone' = TRUE
    /\ UNCHANGED <<capacity, Threshold, Limit, RefillRate, given, PauseBuffer,
                   Remaining, paused, since, sema, mu, n, api, ctxKind,
                   pc, pts, err, timers, resuming, pauseQ, pauses,
                   panicked>>

\* A second passes: for the comparison with pausedAt, for every goroutine
\* inside time.Sleep and for the window of every pause so far.  The clock is
\* advanced only while a later reading can still decide something.
ClockMatters ==
    \/ since < Far
    \/ \E i \in 1 .. Len(pauses) : pauses[i].left > 0

Tick ==
    /\ ~panicked
    /\ ClockMatters
    /\ since' = Min(since + 1, Far)
    /\ pauses' = [i \in 1 .. Len(pauses) |->
                    [pauses[i] EXCEPT !.left = Max(0, pauses[i].left - 1)]]
    /\ UNCHANGED <<capacity, Threshold, Limit, RefillRate, given, PauseBuffer,
                   Remaining, paused, sema, mu, n, api, ctxKind, ctxDone,
                   pc, pts, err, timers, resuming, pauseQ, panicked>>

\* ------------------------------------------------------------------- Next
Next ==
    \/ \E w \in Workers : AquireCall(w)
    \/ \E w \in Workers : AquireSpin(w)
    \/ \E w \in Workers : AquireSelect(w)
    \/ \E w \in Workers, p \in api : ReleaseCall(w, p)
    \/ \E w \in Workers : ReleaseLock(w)
    \/ \E w \in Workers : ReleaseBody(w)
    \/ \E w \in Workers : ReleaseFree(w)
    \/ \E id \in pauseQ : PauseCall(id)
    \/ \E id \in timers : ResumeWake(id)
    \/ \E id \in resuming : ResumeCall(id)
    \/ CtxCancel
    \/ Tick

Spec == Init /\ [][Next]_vars

\* Scheduling: the Go scheduler runs every runnable goroutine again and again
\* (a goroutine blocked on the mutex, on the channel or in time.Sleep is not
\* runnable), the clock advances, and a caller that holds a spot finishes its
\* work and calls Release.
WorkerStep(w) ==
    \/ AquireCall(w)
    \/ AquireSpin(w)
    \/ AquireSelect(w)
    \/ \E p \in api : ReleaseCall(w, p)
    \/ ReleaseLock(w)
    \/ ReleaseBody(w)
    \/ ReleaseFree(w)

\* A step of a goroutine that Release started.  Each of them takes at most
\* two steps and then ends, so fairness of their union already makes every
\* one of them run.
SpawnedStep ==
    \/ \E id \in pauseQ : PauseCall(id)
    \/ \E id \in timers : ResumeWake(id)
    \/ \E id \in resuming : ResumeCall(id)

Fairness ==
    /\ WF_vars(Tick)
    /\ \A w \in Workers : WF_vars(WorkerStep(w))
    /\ WF_vars(SpawnedStep)

FairSpec == Spec /\ Fairness

\* Scheduling of the goroutines that Release started and of the clock only:
\* no caller is required to take another step.
ResumeFairness ==
    /\ WF_vars(Tick)
    /\ WF_vars(SpawnedStep)

ResumeFairSpec == Spec /\ ResumeFairness

\* Scheduling of the callers inside Release only: the clock need not
\* advance and no goroutine that Release started need run.
ReleaseStep(w) ==
    \/ ReleaseLock(w)
    \/ ReleaseBody(w)
    \/ ReleaseFree(w)

ReleaseFairness == \A w \in Workers : WF_vars(ReleaseStep(w))

ReleaseFairSpec == Spec /\ ReleaseFairness

\* A step of a caller inside Aquire.
AquireStep(w) ==
    \/ AquireSpin(w)
    \/ AquireSelect(w)

\* Arguments that NewBalance and NewSemaphore take without complaint: a zero
\* refill rate, a threshold above the limit (with the API reporting a balance
\* above the limit), a capacity of zero; and a negative capacity, with which
\* make(chan struct{}, cap) panics.
BadScenarios ==
    { [bal |-> <<900, 1000, 0>>, cap |-> 1, opts |-> <<>>,
       ctx |-> "background", api |-> {900}],
      [bal |-> <<1100, 1000, 100>>, cap |-> 1, opts |-> <<>>,
       ctx |-> "background", api |-> {1100}],
      [bal |-> SemaphoreFixture, cap |-> 0, opts |-> <<>>,
       ctx |-> "deadline", api |-> {900}],
      [bal |-> SemaphoreFixture, cap |-> -1, opts |-> <<>>,
       ctx |-> "deadline", api |-> {900}] }

AnyArgsInit == InitWith(Scenarios \cup BadScenarios)

AnyArgsSpec == AnyArgsInit /\ [][Next]_vars

\* The Balance on its own, as balance_test.go uses it: NewBalance with a
\* threshold, a limit and a positive refill rate, then Update with observed
\* values, RefillDuration and AtThreshold being read after each.  The values
\* lie around the fixture's (100, 1000, 100): rates that divide the deficit
\* and rates that do not, balances below, at and above the limit.
BalanceThresholds == {100, 900}

BalanceLimits == {10, 1000}

BalanceRefillRates == {1, 3, 100, 300}

BalancePoints == {ErrPts, 0, 1, 500, 950, 999, 1000, 1050}

BalanceScenarios ==
    { [bal |-> <<t, m, r>>, cap |-> 1, opts |-> <<>>, ctx |-> "background",
       api |-> BalancePoints] :
          t \in BalanceThresholds, m \in BalanceLimits,
          r \in BalanceRefillRates }

BalanceInit == InitWith(BalanceScenarios)

\* b.Update(p)
BalanceUpdate(p) ==
    /\ Remaining' = Update(Remaining, p)
    /\ UNCHANGED <<capacity, Threshold, Limit, RefillRate, given, PauseBuffer,
                   paused, since, sema, mu, n, api, ctxKind, ctxDone, pc,
                   pts, err, timers, resuming, pauseQ, pauses, panicked>>

BalanceNext == \E p \in api : BalanceUpdate(p)

BalanceSpec == BalanceInit /\ [][BalanceNext]_vars

\* ------------------------------------------------------------------ claims
\* The callers that hold a spot: Aquire has returned nil and the matching
\* Release has not completed.
Holders == {w \in Workers : pc[w] \in {"held", "lock", "body", "free"}}

HeldSlots == Cardinality(Holders)

\* C1 (capacity bound): with Release called once per successful Aquire, the
\* number of spots held at the same time is between 0 and the capacity, and
\* it is the number of elements in the channel.
C1_CapacityBound ==
    /\ HeldSlots >= 0
    /\ HeldSlots <= capacity
    /\ HeldSlots = sema

\* All spots are held while another caller is inside Aquire's select.
C1_Witness ==
    /\ HeldSlots = capacity
    /\ capacity < n
    /\ \E w \in Workers : pc[w] = "select"

\* C2 (no admission while paused): no Aquire obtains a spot in a state in
\* which paused is true.
C2_NoAdmissionWhilePaused ==
    [][\A w \in Workers :
          (pc[w] = "select" /\ pc'[w] = "held") => ~paused]_vars

\* C3 (a pause lasts its full duration): from the activation of a pause
\* until its duration has passed, paused stays true.
C3_PauseLastsFullDuration ==
    \A i \in 1 .. Len(pauses) : pauses[i].left > 0 => paused

\* C4 (cooldown de-duplication): while paused is true no Release activates
\* a pause, so no second PauseFunc call or resume goroutine is started.
C4_NoPauseWhilePaused ==
    [][paused => Len(pauses') = Len(pauses)]_vars

\* C5 (threshold trigger): a Release that leaves the balance at or below
\* the threshold while the gate is running and pausedAt plus the duration
\* computed from the updated balance lies in the past (as it does for a new
\* Semaphore) sets paused, sets pausedAt to now, and starts PauseFunc and a
\* sleeper with the duration (Limit - Remaining) / RefillRate + PauseBuffer.
C5_ThresholdTrigger ==
    [][\A w \in Workers :
          LET d == ((Limit - Remaining') \div RefillRate) + PauseBuffer
              id == Len(pauses) + 1
          IN  ( /\ pc[w] = "body"
                /\ pc'[w] = "free"
                /\ Remaining' <= Threshold
                /\ ~paused
                /\ since > d )
              => /\ paused'
                 /\ since' = 0
                 /\ Len(pauses') = id
                 /\ pauses'[id].dur = d
                 /\ pauses'[id].left = d
                 /\ id \in timers'
                 /\ id \in pauseQ']_vars

\* Release(100) on the balance fixture (threshold 100, limit 1000, refill
\* rate 100) with a pause buffer of 1 s has just started a pause of 9 s + 1 s.
C5_Witness ==
    /\ Threshold = 100 /\ Limit = 1000 /\ RefillRate = 100
    /\ PauseBuffer = 1
    /\ \E w \in Workers : pc[w] = "free" /\ pts[w] = 100
    /\ Remaining = 100
    /\ paused
    /\ since = 0
    /\ Len(pauses) = 1
    /\ pauses[1].dur = 10

\* The end-to-end run of TestReleaseCausesPauseAndResume as the specification
\* describes it: capacity 1, threshold 900, limit 1000, refill rate 100, a
\* pause buffer of 1 s, two callers that never cancel and release 900.
C6_Scenario ==
    /\ capacity = 1
    /\ Threshold = 900 /\ Limit = 1000 /\ RefillRate = 100
    /\ PauseBuffer = 1
    /\ n = 2
    /\ api = {900}
    /\ ctxKind = "background"

\* Both callers are through Aquire and Release and every goroutine that
\* Release started has finished.
C6_RunOver ==
    /\ \A w \in 1 .. n : pc[w] = "done"
    /\ timers = {} /\ resuming = {} /\ pauseQ = {}

\* C6 as stated (end-to-end scenario): the two acquisitions succeed one
\* after the other, exactly one pause is scheduled, and PauseFunc receives
\* 900 and a duration of 1 s.
C6_OnePauseOfOneSecond ==
    C6_Scenario =>
        /\ HeldSlots <= 1
        /\ \A w \in 1 .. n : err[w] # "ctx"
        /\ Len(pauses) <= 1
        /\ \A i \in 1 .. Len(pauses) :
               pauses[i].pts = 900 /\ pauses[i].dur = 1
        /\ C6_RunOver => Len(pauses) = 1

\* C6 as amended: the two acquisitions succeed one after the other and
\* neither fails; the first Release schedules a pause and the second may
\* schedule another; every pause lasts 2 s (1 s to refill from 900, plus the
\* 1 s buffer) and PauseFunc receives 900 and 2 s; a resume goroutine goes
\* on to its ResumeFunc only when the 2 s of its pause have passed.
C6_PausesOfTwoSeconds ==
    C6_Scenario =>
        /\ HeldSlots <= 1
        /\ \A w \in 1 .. n : err[w] # "ctx"
        /\ Len(pauses) <= 2
        /\ \A i \in 1 .. Len(pauses) :
               /\ pauses[i].pts = 900
               /\ pauses[i].dur = 2
               /\ i \notin timers => pauses[i].left = 0
        /\ (\E w \in 1 .. n : pc[w] \in {"free", "done"}) => Len(pauses) >= 1
        /\ resuming \subseteq 1 .. Len(pauses)

\* The run is over and the second Release has scheduled a second pause.
C6_Witness ==
    /\ C6_Scenario
    /\ C6_RunOver
    /\ Len(pauses) = 2

\* C7 (cancellation): an Aquire whose context is done before it has a spot
\* does not obtain one: it never returns nil from a select entered with
\* ctx.Done() closed.
C7_CancelledNeverSucceeds ==
    [][\A w \in Workers :
          (pc[w] = "select" /\ ctxDone) => pc'[w] # "held"]_vars

\* C9 (sentinel no-op): the Update inside Release stores every value
\* greater than ErrPts and leaves Remaining alone for ErrPts; no other step
\* of a Release changes Remaining, and its last step frees one spot.
C9_SentinelNoOp ==
    [][\A w \in Workers :
          /\ (pc[w] = "body" /\ pc'[w] = "free") =>
                 /\ pts[w] = ErrPts => Remaining' = Remaining
                 /\ pts[w] > ErrPts => Remaining' = pts[w]
          /\ (pc[w] = "lock" /\ pc'[w] = "body") => Remaining' = Remaining
          /\ (pc[w] = "free" /\ pc'[w] = "done") =>
                 Remaining' = Remaining /\ sema' = sema - 1]_vars

\* A Release(ErrPts) has run its Update after an earlier Release had stored
\* a balance other than the initial one.
C9_Witness ==
    \E w \in Workers :
        /\ pc[w] = "free"
        /\ pts[w] = ErrPts
        /\ Remaining # Limit

\* C8 (progress of a finite worker pool): with a context that is never
\* cancelled and more callers than spots, every caller's Aquire eventually
\* returns nil, whatever pauses the Releases start.
C8_Progress ==
    (ctxKind = "background" /\ capacity < n)
        => <>(\A w \in 1 .. n : err[w] = "nil")

\* More callers than spots, all of them admitted, with a pause on the way.
C8_Witness ==
    /\ ctxKind = "background"
    /\ capacity < n
    /\ \A w \in 1 .. n : err[w] = "nil"
    /\ Len(pauses) >= 1

\* A configuration the specification calls malformed.
Misconfigured ==
    \/ RefillRate <= 0
    \/ Threshold < 0
    \/ Threshold > Limit
    \/ capacity <= 0

\* C10 (misconfiguration is rejected at construction): with a malformed
\* configuration the constructors fail and no caller ever operates the gate.
C10_MisconfigurationRejected ==
    Misconfigured => (panicked /\ \A w \in Workers : pc[w] = "idle")

\* C11 (default pause buffer): a Semaphore constructed without a
\* WithPauseBuffer option has a PauseBuffer of DefaultPauseBuffer (1 s), and
\* every pause it schedules lasts the refill duration plus that second.
C11_DefaultPauseBuffer ==
    given = <<>> =>
        /\ PauseBuffer = DefaultPauseBuffer
        /\ \A i \in 1 .. Len(pauses) :
               \E r \in Balances :
                   pauses[i].dur =
                       RefillDuration(r, Limit, RefillRate)
                           + DefaultPauseBuffer

\* C12 (refill arithmetic): with a positive refill rate RefillDuration is
\* the quotient of Limit - Remaining by RefillRate truncated toward zero: the
\* whole number q of the deficit's sign with q * RefillRate the multiple of
\* RefillRate nearest to the deficit on the side of zero; for limit 1000 and
\* rate 100 it is 0 s at a balance of 1000 and 10 s at a balance of 0.
C12_RefillArithmetic ==
    RefillRate > 0 =>
        LET q == RefillDuration(Remaining, Limit, RefillRate)
            deficit == Limit - Remaining
        IN  /\ deficit >= 0 =>
                   /\ q >= 0
                   /\ q * RefillRate <= deficit
                   /\ deficit < (q + 1) * RefillRate
            /\ deficit < 0 =>
                   /\ q <= 0
                   /\ q * RefillRate >= deficit
                   /\ deficit > (q - 1) * RefillRate
            /\ (Limit = 1000 /\ RefillRate = 100 /\ Remaining = 1000) => q = 0
            /\ (Limit = 1000 /\ RefillRate = 100 /\ Remaining = 0) => q = 10

\* Update(950) has left a deficit of 50 at a rate of 100: half a second,
\* which RefillDuration gives as 0 s.
C12_Witness ==
    /\ Limit = 1000
    /\ RefillRate = 100
    /\ Remaining = 950
    /\ RefillDuration(Remaining, Limit, RefillRate) = 0

\* C13 (pause callback arguments): every pause activation hands PauseFunc
\* the balance held in Remaining at that moment and the duration of the
\* pause, also when the Release that activates it was given ErrPts.
C13_PauseFuncArguments ==
    [][Len(pauses') = Len(pauses) + 1 =>
          /\ pauses'[Len(pauses')].pts = Remaining'
          /\ pauses'[Len(pauses')].dur = PauseDuration(Remaining')]_vars

\* C14 (no negative pause): whatever arguments the constructors accepted and
\* whatever values Release is given, no pause that activates has a negative
\* duration.
C14_NoNegativePause ==
    \A i \in 1 .. Len(pauses) : pauses[i].dur >= 0

\* C15 (lock discipline): a step that changes paused or restarts the time
\* since pausedAt is taken by a goroutine that holds the mutex, that is, by
\* the Release whose caller the mutex names.
C15_WritesUnderMutex ==
    [][(paused' # paused \/ since' < since) =>
          \E w \in Workers :
              mu = w /\ pc[w] = "body" /\ pc'[w] = "free"]_vars

\* C16 as stated (cooldown guard): a Release that finds the balance at or
\* below the threshold activates a pause if and only if now is at or after
\* pausedAt plus the duration computed from the balance, the instant itself
\* included.
C16_CooldownAtOrAfter ==
    [][\A w \in Workers :
          (pc[w] = "body" /\ pc'[w] = "free" /\ Remaining' <= Threshold) =>
              (Len(pauses') = Len(pauses) + 1
                   <=> since >= PauseDuration(Remaining'))]_vars

\* C16 as amended: such a Release activates a pause if and only if now is
\* strictly after pausedAt plus the duration computed from the balance; at
\* the instant itself no pause activates.  A Release that leaves the balance
\* above the threshold activates none.
C16_CooldownStrictlyAfter ==
    [][\A w \in Workers :
          (pc[w] = "body" /\ pc'[w] = "free") =>
              (Len(pauses') = Len(pauses) + 1
                   <=> /\ Remaining' <= Threshold
                       /\ since > PauseDuration(Remaining'))]_vars

\* One pause duration (1 s for a balance of 900) after Release(100) started
\* the only pause so far, another caller's Release(900) has been through the
\* guard and has started none.
C16_Witness ==
    \E w \in Workers :
        /\ pc[w] = "free"
        /\ pts[w] = 900
        /\ Remaining = 900
        /\ Remaining <= Threshold
        /\ Len(pauses) = 1
        /\ pauses[1].pts = 100
        /\ since = PauseDuration(Remaining)
        /\ since > 0

\* The ResumeFunc calls made so far: one for every pause whose resume
\* goroutine is neither asleep nor between the flag and the callback.
ResumeCalls == Len(pauses) - Cardinality(timers \cup resuming)

\* C17 (every pause ends by itself): with the resume goroutines and the
\* clock scheduled fairly, and no caller obliged to do anything more, a gate
\* that is paused is eventually not paused; the ResumeFunc calls never
\* outnumber the pause activations, every resume goroutine belongs to an
\* activation and is at one place only, and from some point on there are as
\* many ResumeFunc calls as activations.
C17_EveryPauseEnds ==
    /\ paused ~> ~paused
    /\ [](/\ ResumeCalls >= 0
          /\ ResumeCalls <= Len(pauses)
          /\ timers \cup resuming \subseteq 1 .. Len(pauses)
          /\ timers \cap resuming = {})
    /\ <>[](ResumeCalls = Len(pauses))

\* The only caller is through Release, which started a pause; the pause is
\* over and its ResumeFunc call has been made.
C17_Witness ==
    /\ n = 1
    /\ pc[1] = "done"
    /\ Len(pauses) = 1
    /\ pauses[1].dur > 0
    /\ ~paused
    /\ ResumeCalls = 1

\* C18 (callback ordering): the ResumeFunc call of a pause comes after the
\* PauseFunc call of that pause, and a resume goroutine wakes up (clears the
\* flag and goes on to ResumeFunc) only while the gate is paused.
C18_CallbackOrdering ==
    [][/\ \A id \in resuming : id \notin resuming' => id \notin pauseQ
       /\ \A id \in timers : id \notin timers' => paused]_vars

\* C19 (Release frees exactly one spot, unconditionally): the last step of
\* every Release takes one element out of the channel, so one spot fewer is
\* held, whatever the flag, the argument and the outcome of the threshold
\* test; the receive finds an element, so it is never held up; and no other
\* step of a Release touches the channel.
C19_ReleaseFreesOneSlot ==
    /\ [](\A w \in Workers : pc[w] = "free" => RecvReady)
    /\ [][\A w \in Workers :
             /\ (pc[w] = "free" /\ pc'[w] = "done") =>
                    /\ sema' = sema - 1
                    /\ HeldSlots' = HeldSlots - 1
             /\ (pc[w] \in {"held", "lock", "body"} /\ pc'[w] # pc[w]) =>
                    /\ pc'[w] \in {"lock", "body", "free"}
                    /\ sema' = sema
                    /\ HeldSlots' = HeldSlots]_vars

\* Of two callers holding the two spots, one has been through a Release
\* that started a pause: the gate is paused and one spot is held.
C19_Witness ==
    /\ capacity = 2
    /\ paused
    /\ Len(pauses) = 1
    /\ sema = 1
    /\ \E w, v \in Workers : pc[w] = "done" /\ pc[v] = "held"

\* C20 (Release never waits for the pause): with nothing scheduled but the
\* callers inside Release (no clock, no resume goroutine, no callback), every
\* Release that has been called returns; the mutex is held exactly by the
\* one caller that is between Lock and the end of Release, so a caller
\* waiting for it waits for such a caller only.
C20_ReleaseNeverWaits ==
    /\ \A w \in Workers : (pc[w] = "lock") ~> (pc[w] = "done")
    /\ [](\A w \in Workers : pc[w] \in {"body", "free"} <=> mu = w)

\* The only caller's Release has started a pause and has returned at the
\* very instant of the activation: the gate is paused, the sleeper has its
\* whole duration to go and PauseFunc has not run yet.
C20_Witness ==
    /\ n = 1
    /\ pc[1] = "done"
    /\ mu = 0
    /\ sema = 0
    /\ paused
    /\ since = 0
    /\ timers = {1}
    /\ pauseQ = {1}
    /\ pauses[1].left = pauses[1].dur
    /\ pauses[1].dur > 0

\* C21 (cancellation is observed while paused): a caller that waits in
\* Aquire because the gate is paused, and whose context is done, can return
\* the context's error by its next step, the gate still being paused.
C21_CancelObservedWhilePaused ==
    \A w \in Workers :
        (pc[w] = "spin" /\ ctxDone /\ paused) =>
            ENABLED (AquireStep(w) /\ err'[w] = "ctx")

\* What the gate consists of: the channel, the balance, the flag and the
\* timestamp, the mutex, and the goroutines and callbacks of its pauses.
gate == <<sema, Remaining, paused, since, mu, timers, resuming, pauseQ,
          pauses>>

\* C22 (a cancelled Aquire leaves the gate unchanged): no step of an Aquire
\* that does not obtain a spot, the one that returns the context's error
\* included, changes the channel, the balance, the flag, the timestamp or
\* the goroutines and callbacks of the pauses; a caller whose Aquire
\* returned the error holds no spot and never calls Release.
C22_CancelledAquireNoEffect ==
    /\ [](\A w \in Workers :
             err[w] = "ctx" => pc[w] = "failed" /\ w \notin Holders)
    /\ [][\A w \in Workers :
             ( /\ pc[w] \in {"idle", "spin", "select"}
               /\ pc'[w] \in {"spin", "select", "failed"}
               /\ pc'[w] # pc[w] )
             => /\ gate' = gate
                /\ HeldSlots' = HeldSlots]_vars

\* A caller's Aquire has returned the context's error while the other
\* caller, whose Release has just started a pause, still has its spot: the
\* gate is paused and one spot is held.
C22_Witness ==
    \E w, v \in Workers :
        /\ err[w] = "ctx"
        /\ pc[w] = "failed"
        /\ pc[v] = "free"
        /\ sema = 1
        /\ paused
        /\ Len(pauses) = 1

\* C23 (Release above the threshold changes no pause state): the step of a
\* Release that stores the balance and finds it above the threshold leaves
\* the flag and the timestamp alone and starts no goroutine; the other
\* steps of that Release change only the mutex and, at the end, the channel,
\* from which one element is taken.
C23_AboveThresholdNoPauseState ==
    [][\A w \in Workers :
          /\ (pc[w] = "body" /\ pc'[w] = "free" /\ Remaining' > Threshold) =>
                 /\ Remaining' = Update(Remaining, pts[w])
                 /\ UNCHANGED <<paused, since, timers, resuming, pauseQ,
                                pauses, sema>>
          /\ (pc[w] = "lock" /\ pc'[w] = "body") =>
                 UNCHANGED <<Remaining, paused, since, timers, resuming,
                             pauseQ, pauses, sema>>
          /\ (pc[w] = "free" /\ pc'[w] = "done") =>
                 /\ UNCHANGED <<Remaining, paused, since, timers, resuming,
                                pauseQ, pauses>>
                 /\ sema' = sema - 1]_vars

\* During a pause another caller's Release(1000) has stored a full balance,
\* above the threshold: the gate is still paused and has its one pause.
C23_Witness ==
    \E w \in Workers :
        /\ pc[w] = "free"
        /\ pts[w] = 1000
        /\ Remaining = 1000
        /\ Remaining > Threshold
        /\ paused
        /\ Len(pauses) = 1
        /\ timers = {1}

====
